---- MODULE Spec2Model ----
(***************************************************************************)
(* Model of the FHIR converters of Converters/patient.py (Patient) and     *)
(* Converters/test_practioner.py (Practitioner).                           *)
(*                                                                         *)
(* A convert_to_fhir call is a pipeline: the pydantic model is built from  *)
(* the caller's form data field by field (in field-definition order),      *)
(* line errors are collected, the model-level "after" validator runs, the  *)
(* resource is assembled, and any exception is re-raised by the facade as  *)
(* FHIRValidationError.                                                    *)
(***************************************************************************)
EXTENDS Integers, Sequences, FiniteSets, TLC

VARIABLES
    clock,          \* wall-clock year, datetime.now().year
    kind,           \* which converter is called: "Patient", "Practitioner"
                    \* or "PatientWithId"
    form_data,      \* the caller's raw input record (caller-owned, nested)
    pc,             \* position of the call
    validated,      \* fields of the pydantic model validated so far
    errors,         \* line errors pydantic has collected so far
    raised,         \* the exception in flight inside the try block
    current_year,   \* local of validate_date_format (0 = clock not read)
    result,         \* what the call returned or raised to the caller
    input,          \* the record as the caller built it, before the call
    records,        \* the records handed to calls made from threads
    threads         \* the state of the call each thread is making

vars == <<clock, kind, form_data, pc, validated, errors, raised, current_year, result, input,
          records, threads>>

----------------------------------------------------------------------------
(* Bounds *)

\* years the wall clock runs through
MinYear == 2026
MaxYear == 2027
\* largest number of digit characters in a generated phone value
MaxDigits == 17

----------------------------------------------------------------------------
(* Python values.  Every value carries its runtime type, because the code  *)
(* dispatches on it (isinstance, truthiness, pydantic type validation).    *)
(* A str whose characters the code inspects is a tuple of characters       *)
(* (field c); a str the code treats as opaque is a TLA+ string (field s).  *)

None == [t |-> "none"]
Str(s) == [t |-> "str", s |-> s]
Chars(c) == [t |-> "str", c |-> c]
IntV(n) == [t |-> "int", n |-> n]
BoolV(b) == [t |-> "bool", b |-> b]
List(l) == [t |-> "list", l |-> l]
Dict(d) == [t |-> "dict", d |-> d]

EmptyMap == [k \in {} |-> None]

\* dict.get(key): None when the key is missing
Get(v, k) == IF k \in DOMAIN v.d THEN v.d[k] ELSE None

\* Python truthiness: bool(v)
Truthy(v) ==
    CASE v.t = "none" -> FALSE
      [] v.t = "str"  -> IF "c" \in DOMAIN v THEN Len(v.c) > 0 ELSE v.s # ""
      [] v.t = "int"  -> v.n # 0
      [] v.t = "bool" -> v.b
      [] v.t = "list" -> Len(v.l) > 0
      [] v.t = "dict" -> DOMAIN v.d # {}

\* isinstance(v, str)
IsStr(v) == v.t = "str"

----------------------------------------------------------------------------
(* Enumerations *)

Gender == {"male", "female", "other", "unknown"}
NameUse == {"usual", "official", "temp", "nickname", "anonymous", "old", "maiden"}
ContactSystem == {"phone", "fax", "email", "pager", "url", "sms", "other"}
ContactUse == {"home", "work", "temp", "old", "mobile"}
AddressUse == {"home", "work", "temp", "old", "billing"}
AddressType == {"postal", "physical", "both"}

----------------------------------------------------------------------------
(* Outcome of validating one value: the validated value, the line errors   *)
(* (ValueError / type errors, which pydantic collects), and an exception   *)
(* of another type, which pydantic lets propagate at once.  A message is a  *)
(* sequence of text fragments, so that f-strings are concatenations.       *)

NoExc == [type |-> "none"]
Exc(type, msg) == [type |-> type, msg |-> msg]

Ok(v) == [val |-> v, errs |-> <<>>, exc |-> NoExc]
Bad(msg) == [val |-> None, errs |-> <<msg>>, exc |-> NoExc]
Throw(type, msg) == [val |-> None, errs |-> <<>>, exc |-> Exc(type, msg)]

\* EnumField, had the field been annotated str instead of the Enum class
EnumField_AnyStr(v, members, msg) ==
    IF v.t = "str" THEN Ok(v) ELSE Bad(msg)

\* pydantic: a field annotated with a (str, Enum) class
EnumField(v, members, msg) ==
    IF v.t = "str" /\ "s" \in DOMAIN v /\ v.s \in members THEN Ok(v) ELSE Bad(msg)

\* pydantic: a field annotated str (no coercion from other types)
StrField(v) ==
    IF v.t = "str" THEN Ok(v) ELSE Bad(<<"Input should be a valid string">>)

\* pydantic: a field annotated List[str]
StrListField(v) ==
    IF v.t # "list" THEN Bad(<<"Input should be a valid list">>)
    ELSE IF \A i \in 1..Len(v.l) : v.l[i].t = "str" THEN Ok(v)
    ELSE Bad(<<"Input should be a valid string">>)

\* pydantic: Optional[X] with default None -- None (or a missing key) is None
OptionalField(v, r) == IF v.t = "none" THEN Ok(None) ELSE r

\* pydantic: a required field, Field(...)
RequiredField(d, k, r) ==
    IF k \notin DOMAIN d.d THEN Bad(<<"Field required">>) ELSE r

----------------------------------------------------------------------------
(* Primitive validators *)

DigitChars == <<"0", "1", "2", "3", "4", "5", "6", "7", "8", "9">>

\* str.isdigit / the regex class \d, on the characters the model uses
IsDigit(ch) == \E i \in 1..10 : DigitChars[i] = ch

DigitVal(ch) == (CHOOSE i \in 1..10 : DigitChars[i] = ch) - 1

\* re.match(r"^\d{4}-\d{2}-\d{2}$", v): "$" also matches before a final newline
MatchesDatePattern(cs) ==
    /\ Len(cs) \in {10, 11}
    /\ \A i \in {1, 2, 3, 4, 6, 7, 9, 10} : IsDigit(cs[i])
    /\ cs[5] = "-"
    /\ cs[8] = "-"
    /\ Len(cs) = 11 => cs[11] = "\n"

IsLeap(y) == (y % 4 = 0) /\ ((y % 100 # 0) \/ (y % 400 = 0))

DaysInMonth(y, m) ==
    IF m = 2 THEN (IF IsLeap(y) THEN 29 ELSE 28)
    ELSE IF m \in {4, 6, 9, 11} THEN 30 ELSE 31

\* datetime.strptime(v, "%Y-%m-%d") on a string that matched the pattern:
\* the date, or the description of the ValueError it raises
strptime(cs) ==
    LET y == 1000 * DigitVal(cs[1]) + 100 * DigitVal(cs[2])
             + 10 * DigitVal(cs[3]) + DigitVal(cs[4])
        m == 10 * DigitVal(cs[6]) + DigitVal(cs[7])
        d == 10 * DigitVal(cs[9]) + DigitVal(cs[10])
    IN  IF m \notin 1..12 \/ d = 0
            THEN [ok |-> FALSE, err |-> "time data does not match format"]
        ELSE IF d > 31 \/ Len(cs) # 10
            THEN [ok |-> FALSE, err |-> "unconverted data remains"]
        ELSE IF y < 1
            THEN [ok |-> FALSE, err |-> "year is out of range"]
        ELSE IF d > DaysInMonth(y, m)
            THEN [ok |-> FALSE, err |-> "day is out of range for month"]
        ELSE [ok |-> TRUE, year |-> y, month |-> m, day |-> d]

\* validate_date_format(v), with now = datetime.now().year
validate_date_format(v, now) ==
    IF ~Truthy(v) THEN Ok(v)
    ELSE IF ~IsStr(v) THEN Throw("TypeError", <<"expected string or bytes-like object">>)
    ELSE IF ~MatchesDatePattern(v.c) THEN Bad(<<"Date must be in YYYY-MM-DD format">>)
    ELSE LET date == strptime(v.c)
         IN  IF ~date.ok THEN Bad(<<"Invalid date: ", date.err>>)
             ELSE IF ~(1900 <= date.year /\ date.year <= now)
                 THEN Bad(<<"Invalid date: ", "Birth year must be between 1900 and current year">>)
             ELSE Ok(v)

\* Optional[DateString]: None short-cuts; otherwise the BeforeValidator
\* runs and its return value is validated as str
BirthDateField(v, now) ==
    IF v.t = "none" THEN Ok(None)
    ELSE LET r == validate_date_format(v, now)
         IN  IF r.errs # <<>> \/ r.exc # NoExc THEN r ELSE StrField(r.val)

\* "x" in value
Contains(cs, ch) == \E i \in 1..Len(cs) : cs[i] = ch

\* "".join(filter(str.isdigit, value))
Cleaned(cs) == SelectSeq(cs, IsDigit)

\* validate_contact_value, had the length test used strict comparisons
validate_contact_value_Strict(system, value) ==
    IF system.s = "email"
        THEN IF ~Contains(value.c, "@") \/ ~Contains(value.c, ".")
                THEN Bad(<<"Invalid email format">>) ELSE Ok(value)
    ELSE IF system.s = "phone"
        THEN IF ~(8 < Len(Cleaned(value.c)) /\ Len(Cleaned(value.c)) < 15)
                THEN Bad(<<"Invalid phone number length">>) ELSE Ok(value)
    ELSE Ok(value)

\* validate_contact_value, had the phone rule been the else branch
validate_contact_value_PhoneElse(system, value) ==
    IF system.s = "email"
        THEN IF ~Contains(value.c, "@") \/ ~Contains(value.c, ".")
                THEN Bad(<<"Invalid email format">>) ELSE Ok(value)
    ELSE IF ~(8 <= Len(Cleaned(value.c)) /\ Len(Cleaned(value.c)) <= 15)
        THEN Bad(<<"Invalid phone number length">>) ELSE Ok(value)

\* ContactPoint.validate_contact_value (model validator, mode="after")
validate_contact_value(system, value) ==
    IF system.s = "email"
        THEN IF ~Contains(value.c, "@") \/ ~Contains(value.c, ".")
                THEN Bad(<<"Invalid email format">>) ELSE Ok(value)
    ELSE IF system.s = "phone"
        THEN IF ~(8 <= Len(Cleaned(value.c)) /\ Len(Cleaned(value.c)) <= 15)
                THEN Bad(<<"Invalid phone number length">>) ELSE Ok(value)
    ELSE Ok(value)

----------------------------------------------------------------------------
(* Composite entity validators (pydantic models of patient.py).  The       *)
(* outcome of a model carries, besides val/errs/exc, the raw mapping as    *)
(* the validator leaves it: a "before" model validator receives the        *)
(* caller's own mapping and may write into it.                             *)

RECURSIVE Flatten(_)
\* concatenation of a sequence of sequences
Flatten(ss) == IF ss = <<>> THEN <<>> ELSE Head(ss) \o Flatten(Tail(ss))

\* pydantic: Optional[bool] -- lax mode also takes 0/1 and the usual words
BoolField(v) ==
    IF v.t = "bool" THEN Ok(v)
    ELSE IF v.t = "int" /\ v.n \in {0, 1} THEN Ok(BoolV(v.n = 1))
    ELSE IF v.t = "str" /\ "s" \in DOMAIN v /\ v.s \in {"true", "yes", "on", "1"} THEN Ok(BoolV(TRUE))
    ELSE IF v.t = "str" /\ "s" \in DOMAIN v /\ v.s \in {"false", "no", "off", "0"} THEN Ok(BoolV(FALSE))
    ELSE Bad(<<"Input should be a valid boolean">>)

\* set of the elements of a sequence
Range(seq) == {seq[i] : i \in 1..Len(seq)}

Min(S) == CHOOSE x \in S : \A y \in S : x <= y

\* A pydantic model built from the mapping `raw`: outs maps each field
\* (in definition order `fields`) to its outcome; the model exists only
\* when no field has a line error
BuildModel(raw, fields, outs) ==
    LET errs == Flatten([i \in 1..Len(fields) |-> outs[fields[i]].errs])
    IN  [raw |-> raw,
         val |-> IF errs = <<>> THEN Dict([k \in Range(fields) |-> outs[k].val]) ELSE None,
         errs |-> errs,
         exc |-> NoExc]

NotADict(raw) ==
    [raw |-> raw, val |-> None,
     errs |-> << <<"Input should be a valid dictionary or object to extract fields from">> >>,
     exc |-> NoExc]

\* a "before" model validator that calls values.get on something that is
\* not a mapping
NoGetAttribute(raw) ==
    [raw |-> raw, val |-> None, errs |-> <<>>,
     exc |-> Exc("AttributeError", <<"object has no attribute 'get'">>)]

\* List[Model] built from the list v: items[i] is the outcome of element
\* i.  Elements are validated in order; an exception that is not a line
\* error stops the validation at that element
ModelList(v, items) ==
    LET n == Len(v.l)
        thrown == {i \in 1..n : items[i].exc # NoExc}
        stop == IF thrown = {} THEN n + 1 ELSE Min(thrown)
        errs == Flatten([i \in 1..(stop - 1) |-> items[i].errs])
    IN  [raw |-> List([i \in 1..n |-> IF i < stop THEN items[i].raw ELSE v.l[i]]),
         val |-> IF errs = <<>> /\ thrown = {}
                    THEN List([i \in 1..n |-> items[i].val]) ELSE None,
         errs |-> errs,
         exc |-> IF thrown = {} THEN NoExc ELSE items[stop].exc]

NotAList(v) ==
    [raw |-> v, val |-> None, errs |-> << <<"Input should be a valid list">> >>, exc |-> NoExc]

\* class Identifier
IdentifierFields == <<"system", "value", "type">>

Identifier(raw) ==
    IF raw.t # "dict" THEN NotADict(raw)
    ELSE BuildModel(raw, IdentifierFields,
            [f \in Range(IdentifierFields) |->
                IF f = "type" THEN OptionalField(Get(raw, f), StrField(Get(raw, f)))
                ELSE RequiredField(raw, f, StrField(Get(raw, f)))])

\* HumanName.convert_string_to_list, for one field: check, then wrap in place
WrapIfStr(values, field) ==
    IF IsStr(Get(values, field))
        THEN Dict([values.d EXCEPT ![field] = List(<<values.d[field]>>)])
        ELSE values

\* convert_string_to_list, had "suffix" been left out of its field list
convert_string_to_list_NoSuffix(values) ==
    WrapIfStr(WrapIfStr(values, "given"), "prefix")

\* HumanName.convert_string_to_list (model validator, mode="before")
convert_string_to_list(values) ==
    WrapIfStr(WrapIfStr(WrapIfStr(values, "given"), "prefix"), "suffix")

\* class HumanName
HumanNameFields == <<"use", "family", "given", "prefix", "suffix">>

HumanNameField(values, f) ==
    CASE f = "use" ->
            OptionalField(Get(values, f),
                EnumField(Get(values, f), NameUse, <<"Input should be a member of NameUse">>))
      [] f = "family" -> OptionalField(Get(values, f), StrField(Get(values, f)))
      [] OTHER -> OptionalField(Get(values, f), StrListField(Get(values, f)))

HumanName(raw) ==
    IF raw.t # "dict" THEN NoGetAttribute(raw)
    ELSE LET values == convert_string_to_list(raw)
         IN  BuildModel(values, HumanNameFields,
                [f \in Range(HumanNameFields) |-> HumanNameField(values, f)])

\* class ContactPoint
ContactPointFields == <<"system", "value", "use">>

ContactPointField(raw, f) ==
    CASE f = "system" ->
            RequiredField(raw, f,
                EnumField(Get(raw, f), ContactSystem, <<"Input should be a member of ContactSystem">>))
      [] f = "value" -> RequiredField(raw, f, StrField(Get(raw, f)))
      [] OTHER ->
            OptionalField(Get(raw, f),
                EnumField(Get(raw, f), ContactUse, <<"Input should be a member of ContactUse">>))

\* the "after" validator runs on the model, so only when every field passed
ContactPoint(raw) ==
    IF raw.t # "dict" THEN NotADict(raw)
    ELSE LET m == BuildModel(raw, ContactPointFields,
                    [f \in Range(ContactPointFields) |-> ContactPointField(raw, f)])
         IN  IF m.errs # <<>> THEN m
             ELSE LET r == validate_contact_value(m.val.d.system, m.val.d.value)
                  IN  IF r.errs # <<>> THEN [m EXCEPT !.val = None, !.errs = r.errs]
                      ELSE m

\* convert_line_to_list, had it tested the value's truth instead of its type
convert_line_to_list_Truthy(values) ==
    IF Truthy(Get(values, "line"))
        THEN Dict([values.d EXCEPT !["line"] = List(<<values.d["line"]>>)])
        ELSE values

\* Address.convert_line_to_list (model validator, mode="before")
convert_line_to_list(values) == WrapIfStr(values, "line")

\* class Address
AddressFields == <<"use", "type", "line", "city", "state", "postalCode", "country">>

AddressField(values, f) ==
    CASE f = "use" ->
            OptionalField(Get(values, f),
                EnumField(Get(values, f), AddressUse, <<"Input should be a member of AddressUse">>))
      [] f = "type" ->
            OptionalField(Get(values, f),
                EnumField(Get(values, f), AddressType, <<"Input should be a member of AddressType">>))
      [] f = "line" -> OptionalField(Get(values, f), StrListField(Get(values, f)))
      [] OTHER -> OptionalField(Get(values, f), StrField(Get(values, f)))

Address(raw) ==
    IF raw.t # "dict" THEN NoGetAttribute(raw)
    ELSE LET values == convert_line_to_list(raw)
         IN  BuildModel(values, AddressFields,
                [f \in Range(AddressFields) |-> AddressField(values, f)])

\* class Language; preferred defaults to False when the key is missing
LanguageFields == <<"code", "display", "preferred">>

Language(raw) ==
    IF raw.t # "dict" THEN NotADict(raw)
    ELSE BuildModel(raw, LanguageFields,
            [f \in Range(LanguageFields) |->
                IF f = "preferred"
                    THEN IF f \notin DOMAIN raw.d THEN Ok(BoolV(FALSE))
                         ELSE OptionalField(Get(raw, f), BoolField(Get(raw, f)))
                    ELSE RequiredField(raw, f, StrField(Get(raw, f)))])

----------------------------------------------------------------------------
(* class PatientInput: the top-level fields, in definition order *)

PatientInputFields ==
    <<"identifiers", "names", "contacts", "gender", "birthDate", "addresses",
      "maritalStatus", "languages">>

WithRaw(v, r) == [raw |-> v, val |-> r.val, errs |-> r.errs, exc |-> r.exc]

\* Optional[List[Model]]; items[i] is the outcome of element i
OptionalModelList(v, items) ==
    IF v.t = "none" THEN WithRaw(v, Ok(None))
    ELSE IF v.t # "list" THEN NotAList(v)
    ELSE ModelList(v, items)

\* names: List[HumanName] = Field(..., min_items=1)
NamesField(form) ==
    LET v == Get(form, "names")
    IN  IF "names" \notin DOMAIN form.d THEN WithRaw(v, Bad(<<"Field required">>))
        ELSE IF v.t # "list" THEN NotAList(v)
        ELSE IF Len(v.l) < 1
            THEN WithRaw(v, Bad(<<"List should have at least 1 item after validation">>))
        ELSE ModelList(v, [i \in 1..Len(v.l) |-> HumanName(v.l[i])])

\* the outcome of validating top-level field f of the form data
PatientInputField(form, f, now) ==
    LET v == Get(form, f)
        n == IF v.t = "list" THEN Len(v.l) ELSE 0
    IN  CASE f = "identifiers" -> OptionalModelList(v, [i \in 1..n |-> Identifier(v.l[i])])
          [] f = "names" -> NamesField(form)
          [] f = "contacts" -> OptionalModelList(v, [i \in 1..n |-> ContactPoint(v.l[i])])
          [] f = "gender" ->
                WithRaw(v, OptionalField(v,
                    EnumField(v, Gender, <<"Input should be a member of Gender">>)))
          [] f = "birthDate" -> WithRaw(v, BirthDateField(v, now))
          [] f = "addresses" -> OptionalModelList(v, [i \in 1..n |-> Address(v.l[i])])
          [] f = "maritalStatus" -> WithRaw(v, OptionalField(v, StrField(v)))
          [] f = "languages" -> OptionalModelList(v, [i \in 1..n |-> Language(v.l[i])])

\* name.family or (name.given and len(name.given) > 0)
HasFamilyOrGiven(name) ==
    \/ Truthy(name.d.family)
    \/ (Truthy(name.d.given) /\ Len(name.d.given.l) > 0)

\* validate_names, had it used all(...) in place of any(...)
validate_names_All(names) == \A i \in 1..Len(names.l) : HasFamilyOrGiven(names.l[i])

\* PatientInput.validate_names (model validator, mode="after"): any(...)
validate_names(names) == \E i \in 1..Len(names.l) : HasFamilyOrGiven(names.l[i])

----------------------------------------------------------------------------
(* Resource assembler of FHIRPatientConverter.convert_to_fhir *)

\* DropNone, had the comprehension lost its filter
DropNone_KeepAll(m) == m

\* {k: v for k, v in model.model_dump().items() if v is not None}
DropNone(m) == Dict([k \in {k \in DOMAIN m.d : m.d[k] # None} |-> m.d[k]])

\* [f(x) for x in xs]
MapList(xs, f(_)) == List([i \in 1..Len(xs.l) |-> f(xs.l[i])])

IdentifierEntry(identifier) ==
    Dict([system |-> identifier.d.system,
          value |-> identifier.d.value,
          type |-> IF Truthy(identifier.d.type)
                      THEN Dict([coding |-> List(<<
                              Dict([system |-> Str("http://terminology.hl7.org/CodeSystem/v2-0203"),
                                    code |-> identifier.d.type])>>)])
                      ELSE None])

TelecomEntry(contact) ==
    Dict([system |-> contact.d.system, value |-> contact.d.value, use |-> contact.d.use])

MaritalStatusEntry(code) ==
    Dict([coding |-> List(<<
        Dict([system |-> Str("http://terminology.hl7.org/CodeSystem/v3-MaritalStatus"),
              code |-> code])>>)])

CommunicationEntry(lang) ==
    Dict([language |-> Dict([coding |-> List(<<
                Dict([system |-> Str("urn:ietf:bcp:47"),
                      code |-> lang.d.code,
                      display |-> lang.d.display])>>)]),
          preferred |-> lang.d.preferred])

\* the key/value pair k: v when cond holds, else nothing
Entry(cond, k, v) == IF cond THEN (k :> v) ELSE EmptyMap

\* patient_resource, had each section been added whenever it is not None
PatientResource_NotNone(vd) ==
    Dict(   [resourceType |-> Str("Patient"), active |-> BoolV(TRUE)]
         @@ Entry(vd.identifiers # None, "identifier", MapList(vd.identifiers, IdentifierEntry))
         @@ Entry(vd.names # None, "name", MapList(vd.names, DropNone))
         @@ Entry(vd.contacts # None, "telecom", MapList(vd.contacts, TelecomEntry))
         @@ Entry(vd.gender # None, "gender", vd.gender)
         @@ Entry(vd.birthDate # None, "birthDate", vd.birthDate)
         @@ Entry(vd.addresses # None, "address", MapList(vd.addresses, DropNone))
         @@ Entry(vd.maritalStatus # None, "maritalStatus", MaritalStatusEntry(vd.maritalStatus))
         @@ Entry(vd.languages # None, "communication", MapList(vd.languages, CommunicationEntry)))

\* patient_resource as built from validated_data
PatientResource(vd) ==
    Dict(   [resourceType |-> Str("Patient"), active |-> BoolV(TRUE)]
         @@ Entry(Truthy(vd.identifiers), "identifier", MapList(vd.identifiers, IdentifierEntry))
         @@ Entry(Truthy(vd.names), "name", MapList(vd.names, DropNone))
         @@ Entry(Truthy(vd.contacts), "telecom", MapList(vd.contacts, TelecomEntry))
         @@ Entry(Truthy(vd.gender), "gender", vd.gender)
         @@ Entry(Truthy(vd.birthDate), "birthDate", vd.birthDate)
         @@ Entry(Truthy(vd.addresses), "address", MapList(vd.addresses, DropNone))
         @@ Entry(Truthy(vd.maritalStatus), "maritalStatus", MaritalStatusEntry(vd.maritalStatus))
         @@ Entry(Truthy(vd.languages), "communication", MapList(vd.languages, CommunicationEntry)))

----------------------------------------------------------------------------
(* Practitioner converter (test_practioner.py): its own pydantic models,   *)
(* none of which has a validator function attached.                        *)

\* class IdentifierType {system, value}
IdentifierTypeFields == <<"system", "value">>

IdentifierType(raw) ==
    IF raw.t # "dict" THEN NotADict(raw)
    ELSE BuildModel(raw, IdentifierTypeFields,
            [f \in Range(IdentifierTypeFields) |-> RequiredField(raw, f, StrField(Get(raw, f)))])

\* class HumanName of the Practitioner module: validate_name is a plain
\* classmethod that nothing calls, and there is no "before" validator
PractitionerHumanName(raw) ==
    IF raw.t # "dict" THEN NotADict(raw)
    ELSE BuildModel(raw, HumanNameFields,
            [f \in Range(HumanNameFields) |-> HumanNameField(raw, f)])

\* class Address of the Practitioner module
PractitionerAddress(raw) ==
    IF raw.t # "dict" THEN NotADict(raw)
    ELSE BuildModel(raw, AddressFields,
            [f \in Range(AddressFields) |-> AddressField(raw, f)])

\* class Coding
CodingFields == <<"system", "code", "display">>

Coding(raw) ==
    IF raw.t # "dict" THEN NotADict(raw)
    ELSE BuildModel(raw, CodingFields,
            [f \in Range(CodingFields) |->
                IF f = "display" THEN OptionalField(Get(raw, f), StrField(Get(raw, f)))
                ELSE RequiredField(raw, f, StrField(Get(raw, f)))])

\* a required List[Model] field under key k of the mapping raw
RequiredModelList(raw, k, items) ==
    IF k \notin DOMAIN raw.d THEN WithRaw(None, Bad(<<"Field required">>))
    ELSE IF raw.d[k].t # "list" THEN NotAList(raw.d[k])
    ELSE ModelList(raw.d[k], items)

\* class CodeableConcept: coding is a required list with no length bound
CodeableConceptFields == <<"coding", "text">>

CodeableConcept(raw) ==
    IF raw.t # "dict" THEN NotADict(raw)
    ELSE LET c == Get(raw, "coding")
             n == IF c.t = "list" THEN Len(c.l) ELSE 0
         IN  BuildModel(raw, CodeableConceptFields,
                [f \in Range(CodeableConceptFields) |->
                    IF f = "coding"
                        THEN RequiredModelList(raw, f, [i \in 1..n |-> Coding(c.l[i])])
                        ELSE OptionalField(Get(raw, f), StrField(Get(raw, f)))])

\* pydantic: Dict[str, str]
StrDictField(v) ==
    IF v.t # "dict" THEN Bad(<<"Input should be a valid dictionary">>)
    ELSE IF \A k \in DOMAIN v.d : v.d[k].t = "str" THEN Ok(v)
    ELSE Bad(<<"Input should be a valid string">>)

\* class Qualification
QualificationFields == <<"identifier", "code", "period", "issuer">>

Qualification(raw) ==
    IF raw.t # "dict" THEN NotADict(raw)
    ELSE LET ids == Get(raw, "identifier")
             n == IF ids.t = "list" THEN Len(ids.l) ELSE 0
         IN  BuildModel(raw, QualificationFields,
                [f \in Range(QualificationFields) |->
                    CASE f = "identifier" ->
                            OptionalModelList(ids, [i \in 1..n |-> IdentifierType(ids.l[i])])
                      [] f = "code" -> RequiredField(raw, f, CodeableConcept(Get(raw, f)))
                      [] OTHER -> OptionalField(Get(raw, f), StrDictField(Get(raw, f)))])

\* class PractitionerInput
PractitionerInputFields == <<"identifier", "active", "name", "address", "qualification">>

PractitionerInputField(form, f) ==
    LET v == Get(form, f)
        n == IF v.t = "list" THEN Len(v.l) ELSE 0
    IN  CASE f = "identifier" -> OptionalModelList(v, [i \in 1..n |-> IdentifierType(v.l[i])])
          [] f = "active" -> WithRaw(v, OptionalField(v, BoolField(v)))
          [] f = "name" ->
                IF f \notin DOMAIN form.d THEN WithRaw(v, Bad(<<"Field required">>))
                ELSE IF v.t # "list" THEN NotAList(v)
                ELSE IF n < 1
                    THEN WithRaw(v, Bad(<<"List should have at least 1 item after validation">>))
                ELSE ModelList(v, [i \in 1..n |-> PractitionerHumanName(v.l[i])])
          [] f = "address" -> OptionalModelList(v, [i \in 1..n |-> PractitionerAddress(v.l[i])])
          [] f = "qualification" -> OptionalModelList(v, [i \in 1..n |-> Qualification(v.l[i])])

\* PractitionerInput(**form_data)
PractitionerInput(form) ==
    BuildModel(form, PractitionerInputFields,
        [f \in Range(PractitionerInputFields) |-> PractitionerInputField(form, f)])

\* Python's `a or b`
PyOr(a, b) == IF Truthy(a) THEN a ELSE b

IdentifierTypeEntry(identifier) ==
    Dict([system |-> identifier.d.system, value |-> identifier.d.value])

CodingEntry(coding) ==
    Dict([system |-> coding.d.system, code |-> coding.d.code, display |-> coding.d.display])

QualificationEntry(qual) ==
    Dict([identifier |-> IF Truthy(qual.d.identifier)
                            THEN MapList(qual.d.identifier, IdentifierTypeEntry)
                            ELSE None,
          code |-> Dict([coding |-> MapList(qual.d.code.d.coding, CodingEntry),
                         text |-> qual.d.code.d.text]),
          period |-> qual.d.period,
          issuer |-> qual.d.issuer])

\* practitioner_resource as built from validated_data and the generated id
PractitionerResource(vd, id) ==
    Dict(   [resourceType |-> Str("Practitioner"),
             id |-> Str(id),
             active |-> PyOr(vd.active, BoolV(TRUE)),
             text |-> Dict([status |-> Str("generated"),
                            div |-> Str("<div xmlns=\"http://www.w3.org/1999/xhtml\"><p>Practitioner Details</p></div>")])]
         @@ Entry(Truthy(vd.identifier), "identifier", MapList(vd.identifier, IdentifierTypeEntry))
         @@ Entry(Truthy(vd.name), "name", MapList(vd.name, DropNone))
         @@ Entry(Truthy(vd.address), "address", MapList(vd.address, DropNone))
         @@ Entry(Truthy(vd.qualification), "qualification",
                  MapList(vd.qualification, QualificationEntry)))

----------------------------------------------------------------------------
(* The id-generating Patient converter (test_patient_with_pydantic.py):    *)
(* the models of patient.py with field validators in place of model        *)
(* validators, and a generated id in the resource.                         *)

\* convert_string_to_list / convert_line_to_list (field validators,
\* mode="before"): the wrapped value is returned, the mapping is not written
WrapValueIfStr(v) == IF IsStr(v) THEN List(<<v>>) ELSE v

\* an Optional[List[str]] field behind that validator; the default of a
\* missing key is not validated
WrappedListField(raw, f) ==
    IF f \notin DOMAIN raw.d THEN Ok(None)
    ELSE LET v == WrapValueIfStr(raw.d[f])
         IN  OptionalField(v, StrListField(v))

\* class HumanName
HumanNameWithId(raw) ==
    IF raw.t # "dict" THEN NotADict(raw)
    ELSE BuildModel(raw, HumanNameFields,
            [f \in Range(HumanNameFields) |->
                IF f \in {"given", "prefix", "suffix"} THEN WrappedListField(raw, f)
                ELSE HumanNameField(raw, f)])

\* ContactPoint.validate_contact_value(cls, v, values), a field validator
\* on value: pydantic passes a ValidationInfo as `values`, and the first
\* statement calls values.get on it
validate_contact_value_WithId(v) ==
    Throw("AttributeError", <<"'ValidationInfo' object has no attribute 'get'">>)

\* class ContactPoint: the validator runs once value has validated as str,
\* and what it raises is not a line error
ContactPointWithId(raw) ==
    IF raw.t # "dict" THEN NotADict(raw)
    ELSE LET value == ContactPointField(raw, "value")
             after == IF value.errs = <<>> THEN validate_contact_value_WithId(value.val) ELSE value
         IN  IF after.exc # NoExc
                THEN [raw |-> raw, val |-> None, errs |-> <<>>, exc |-> after.exc]
                ELSE BuildModel(raw, ContactPointFields,
                        [f \in Range(ContactPointFields) |-> ContactPointField(raw, f)])

\* class Address
AddressWithId(raw) ==
    IF raw.t # "dict" THEN NotADict(raw)
    ELSE BuildModel(raw, AddressFields,
            [f \in Range(AddressFields) |->
                IF f = "line" THEN WrappedListField(raw, f) ELSE AddressField(raw, f)])

\* birthDate: Optional[str] with PatientInput.validate_birth_date run on
\* the validated string
BirthDateWithIdField(v, now) ==
    IF v.t = "none" THEN Ok(None)
    ELSE LET r == StrField(v)
         IN  IF r.errs # <<>> THEN r
             ELSE IF Truthy(v) THEN validate_date_format(v, now)
             ELSE Ok(v)

\* names: List[HumanName] with min_items=1 and PatientInput.validate_names
\* (a field validator) run on the validated list
NamesWithIdField(form) ==
    LET v == Get(form, "names")
        r == IF "names" \notin DOMAIN form.d THEN WithRaw(v, Bad(<<"Field required">>))
             ELSE IF v.t # "list" THEN NotAList(v)
             ELSE IF Len(v.l) < 1
                 THEN WithRaw(v, Bad(<<"List should have at least 1 item after validation">>))
             ELSE ModelList(v, [i \in 1..Len(v.l) |-> HumanNameWithId(v.l[i])])
    IN  IF r.errs # <<>> \/ r.exc # NoExc \/ validate_names(r.val) THEN r
        ELSE WithRaw(v, Bad(<<"At least one name must have either a family name or a given name">>))

\* the outcome of validating top-level field f of the form data
PatientInputWithIdField(form, f, now) ==
    LET v == Get(form, f)
        n == IF v.t = "list" THEN Len(v.l) ELSE 0
    IN  CASE f = "identifiers" -> OptionalModelList(v, [i \in 1..n |-> Identifier(v.l[i])])
          [] f = "names" -> NamesWithIdField(form)
          [] f = "contacts" -> OptionalModelList(v, [i \in 1..n |-> ContactPointWithId(v.l[i])])
          [] f = "gender" ->
                WithRaw(v, OptionalField(v,
                    EnumField(v, Gender, <<"Input should be a member of Gender">>)))
          [] f = "birthDate" -> WithRaw(v, BirthDateWithIdField(v, now))
          [] f = "addresses" -> OptionalModelList(v, [i \in 1..n |-> AddressWithId(v.l[i])])
          [] f = "maritalStatus" -> WithRaw(v, OptionalField(v, StrField(v)))
          [] f = "languages" -> OptionalModelList(v, [i \in 1..n |-> Language(v.l[i])])

\* patient_resource as built from validated_data and the generated id
PatientResourceWithId(vd, id) ==
    Dict(   [resourceType |-> Str("Patient"), id |-> Str(id), active |-> BoolV(TRUE)]
         @@ Entry(Truthy(vd.identifiers), "identifier", MapList(vd.identifiers, IdentifierEntry))
         @@ Entry(Truthy(vd.names), "name", MapList(vd.names, DropNone))
         @@ Entry(Truthy(vd.contacts), "telecom", MapList(vd.contacts, TelecomEntry))
         @@ Entry(Truthy(vd.gender), "gender", vd.gender)
         @@ Entry(Truthy(vd.birthDate), "birthDate", vd.birthDate)
         @@ Entry(Truthy(vd.addresses), "address", MapList(vd.addresses, DropNone))
         @@ Entry(Truthy(vd.maritalStatus), "maritalStatus", MaritalStatusEntry(vd.maritalStatus))
         @@ Entry(Truthy(vd.languages), "communication", MapList(vd.languages, CommunicationEntry)))

----------------------------------------------------------------------------
(* Raw inputs the caller may pass.  Missing marks a key that the mapping   *)
(* does not have; MkDict drops such keys.                                  *)

Missing == [t |-> "missing"]

MkDict(rec) == Dict([k \in {k \in DOMAIN rec : rec[k] # Missing} |-> rec[k]])

D2(n) == <<DigitChars[(n \div 10) + 1], DigitChars[(n % 10) + 1]>>
D4(n) == D2(n \div 100) \o D2(n % 100)

\* the text of a date with the given separator
DateText(y, m, d, sep) == D4(y) \o <<sep>> \o D2(m) \o <<sep>> \o D2(d)

BirthYears == {0, 1899, 1900, 1990, 2000, 2024} \cup ((MinYear - 1)..(MaxYear + 1))

MonthDays ==
    {<<1, 1>>, <<12, 31>>, <<2, 29>>, <<2, 30>>, <<4, 31>>, <<13, 1>>, <<0, 1>>,
     <<1, 0>>, <<1, 32>>}

BirthDates ==
       {Chars(DateText(y, md[1], md[2], sep)) : y \in BirthYears, md \in MonthDays, sep \in {"-", "/"}}
  \cup {Chars(<<>>),
        Chars(<<"0", "1", "-", "0", "1", "-", "9", "0">>),
        Chars(<<"0", "1", "/", "0", "1", "/", "1", "9", "9", "0">>),
        Chars(DateText(1990, 1, 1, "-") \o <<"\n">>),
        Chars(DateText(1990, 1, 1, "-") \o <<"x">>),
        Chars(<<"a", "b", "c", "d", "-", "0", "1", "-", "0", "1">>),
        IntV(19900101), IntV(0), BoolV(FALSE), None}

\* a phone value with n digit characters and some non-digit characters
PhoneText(n, style) ==
    CASE style = "plain"  -> [i \in 1..n |-> "5"]
      [] style = "plus"   -> <<"+">> \o [i \in 1..n |-> "5"]
      [] style = "dashed" -> <<"(", "+", ")">> \o [i \in 1..(2 * n) |-> IF i % 2 = 1 THEN "5" ELSE "-"]

PhoneValues == {Chars(PhoneText(n, st)) : n \in 0..MaxDigits, st \in {"plain", "plus", "dashed"}}

EmailValues ==
    {Chars(<<"a", "@", "b", ".", "c">>), Chars(<<"a", "@", "b">>), Chars(<<"a", ".", "b">>),
     Chars(<<"@", ".">>), Chars(<<".", "@">>), Chars(<<"a", "b">>)}

ValidName ==
    Dict([use |-> Str("official"), family |-> Str("Smith"), given |-> List(<<Str("John")>>)])

ValidContact ==
    Dict([system |-> Str("phone"), value |-> Chars(PhoneText(10, "plus")), use |-> Str("home")])

ValidAddress ==
    Dict([use |-> Str("home"), type |-> Str("physical"), line |-> List(<<Str("123 Main St")>>),
          city |-> Str("Boston")])

ValidDate == Chars(DateText(1990, 1, 1, "-"))

\* the valid record every family of inputs varies
BaseInput ==
    [identifiers |-> Missing, names |-> List(<<ValidName>>), contacts |-> Missing,
     gender |-> Str("male"), birthDate |-> ValidDate, addresses |-> Missing,
     maritalStatus |-> Missing, languages |-> Missing]

\* the base record with field k set to v
With(k, v) == MkDict([BaseInput EXCEPT ![k] = v])

CoreNames ==
    {MkDict([family |-> f, given |-> g]) :
        f \in {Missing, None, Str(""), Str("Smith")},
        g \in {Missing, None, Str("John"), Str(""), List(<<>>), List(<<Str("John")>>),
               List(<<Str("John"), Str("Peter")>>)}}

RichNames ==
    {MkDict([use |-> u, family |-> fg[1], given |-> fg[2], prefix |-> p, suffix |-> x]) :
        u \in {Missing, Str("official"), Str("Official"), Str("nickname2")},
        fg \in {<<Str("Smith"), Missing>>, <<Missing, Str("John")>>, <<Missing, List(<<Str("John")>>)>>},
        p \in {Missing, Str("Mr"), List(<<Str("Mr")>>), IntV(1)},
        x \in {Missing, Str("Jr"), List(<<Str("Jr")>>)}}

NameLists ==
         {List(<<>>), Missing, None, Str("Smith"),
          List(<<Str("Smith")>>),
          List(<<ValidName, Str("x")>>),
          List(<<Dict([given |-> Str("John")]), None>>),
          List(<<Dict([use |-> Str("official"), family |-> Str("Smith"),
                       given |-> List(<<Str("John"), Str("Peter")>>)])>>)}
    \cup {List(<<n>>) : n \in CoreNames \cup RichNames}
    \cup {List(<<n1, n2>>) : n1 \in CoreNames, n2 \in CoreNames}

ContactLists ==
         {List(<<>>), None, List(<<Str("x")>>), List(<<ValidContact, ValidContact>>)}
    \cup {List(<<MkDict([system |-> sy, value |-> v])>>) :
            sy \in {Str(m) : m \in ContactSystem} \cup {Str("whatsapp"), Str("Phone"), Str(""), Missing},
            v \in PhoneValues \cup EmailValues}
    \cup {List(<<MkDict([system |-> sy, value |-> v, use |-> u])>>) :
            sy \in {Str("phone"), Str("email"), Str("fax")},
            v \in {Chars(PhoneText(10, "plus")), Chars(<<"a", "@", "b", ".", "c">>), Missing, IntV(5)},
            u \in {None, Str("home"), Str("Home"), Str("invalid_use")}}

AddressLists ==
         {List(<<>>), None, List(<<Str("x")>>),
          List(<<Dict([line |-> Str("123 Main St")]), IntV(1)>>)}
    \cup {List(<<MkDict([use |-> u, type |-> ty, line |-> l, city |-> c])>>) :
            u \in {Missing, Str("home"), Str("invalid_use")},
            ty \in {Missing, Str("physical"), Str("invalid_type")},
            l \in {Missing, Str("123 Main St"), List(<<Str("123 Main St")>>), List(<<>>), Str("")},
            c \in {Missing, Str("Boston")}}

IdentifierElems ==
    {MkDict([system |-> sy, value |-> v, type |-> ty]) :
        sy \in {Missing, Str(""), Str("http://hospital.com/patients")},
        v \in {Missing, Str(""), Str("12345")},
        ty \in {Missing, None, Str(""), Str("MR")}}

IdentifierLists ==
         {List(<<>>), None, List(<<Str("x")>>)}
    \cup {List(<<e>>) : e \in IdentifierElems}
    \cup {List(<<Dict([system |-> Str("urn:a"), value |-> Str("1"), type |-> Str("MR")]), e>>) :
            e \in IdentifierElems}

LanguageLists ==
    {List(<<>>),
     List(<<Dict([code |-> Str("en"), display |-> Str("English")])>>),
     List(<<Dict([code |-> Str("en"), display |-> Str("English"), preferred |-> BoolV(TRUE)])>>),
     List(<<Dict([code |-> Str("en"), display |-> Str("English"), preferred |-> None])>>),
     List(<<Dict([code |-> Str("en")])>>)}

\* inputs in which several sections vary together
CrossInputs ==
    {MkDict([identifiers |-> i, names |-> n, contacts |-> c, gender |-> g, birthDate |-> b,
             addresses |-> a, maritalStatus |-> Missing, languages |-> Missing]) :
        i \in {Missing, List(<<Dict([system |-> Str("urn:a"), value |-> Str("1")])>>)},
        n \in {List(<<ValidName>>),
               List(<<Dict([use |-> Str("nickname2"), family |-> Str("Smith")])>>),
               List(<<Dict([family |-> None, given |-> None])>>)},
        c \in {Missing, List(<<ValidContact>>),
               List(<<Dict([system |-> Str("whatsapp"), value |-> Chars(PhoneText(10, "plus"))])>>),
               List(<<Dict([system |-> Str("phone"), value |-> Chars(PhoneText(10, "plus")),
                            use |-> Str("invalid_use")])>>)},
        g \in {Missing, Str("male"), Str("Male"), Str("invalid_gender")},
        b \in {Missing, ValidDate, Chars(DateText(1990, 1, 1, "/")), IntV(19900101)},
        a \in {Missing, List(<<ValidAddress>>),
               List(<<Dict([use |-> Str("invalid_use"), line |-> Str("123 Main St")])>>),
               List(<<Dict([use |-> Str("home"), type |-> Str("invalid_type")])>>)}}

PatientInputs ==
         {None}
    \cup CrossInputs
    \cup {With("names", v) : v \in NameLists}
    \cup {With("contacts", v) : v \in ContactLists}
    \cup {With("birthDate", v) : v \in BirthDates}
    \cup {With("gender", v) : v \in {None, Str(""), Str("female"), Str("FEMALE"), IntV(1)}}
    \cup {With("addresses", v) : v \in AddressLists}
    \cup {With("identifiers", v) : v \in IdentifierLists}
    \cup {With("languages", v) : v \in LanguageLists}
    \cup {With("maritalStatus", v) : v \in {None, Str(""), Str("M"), IntV(1)}}

ValidCoding ==
    Dict([system |-> Str("http://terminology.hl7.org/CodeSystem/v2-0360/2.7"),
          code |-> Str("BS"), display |-> Str("Bachelor of Science")])

QualificationLists ==
    {Missing,
     List(<<Dict([identifier |-> List(<<Dict([system |-> Str("http://example.org/UniversityIdentifier"),
                                              value |-> Str("12345")])>>),
                  code |-> Dict([coding |-> List(<<ValidCoding>>), text |-> Str("Bachelor of Science")]),
                  period |-> Dict([start |-> Str("1995")]),
                  issuer |-> Dict([display |-> Str("Example University")])])>>),
     List(<<Dict([code |-> Dict([coding |-> List(<<ValidCoding>>)])])>>),
     List(<<Dict([code |-> Dict([coding |-> List(<<>>)])])>>),
     List(<<Dict([code |-> Dict([text |-> Str("Bachelor of Science")])])>>),
     List(<<Dict([period |-> Dict([start |-> Str("1995")])])>>)}

PractitionerInputs ==
    {None} \cup
    {MkDict([identifier |-> i, active |-> a, name |-> n, address |-> ad, qualification |-> q]) :
        i \in {Missing, List(<<>>),
               List(<<Dict([system |-> Str("http://www.acme.org/practitioners"), value |-> Str("23")])>>)},
        a \in {Missing, None, BoolV(TRUE), BoolV(FALSE), IntV(0), Str("no"), Str("maybe")},
        n \in {Missing, List(<<>>),
               List(<<Dict([family |-> Str("Careful"), given |-> List(<<Str("Adam")>>),
                            prefix |-> List(<<Str("Dr")>>)])>>),
               List(<<Dict([family |-> Str("Careful")])>>),
               List(<<Dict([family |-> None, given |-> None])>>),
               List(<<Dict([family |-> Str("Careful"), given |-> Str("Adam")])>>)},
        ad \in {Missing,
                List(<<Dict([use |-> Str("home"), line |-> List(<<Str("534 Erewhon St")>>),
                             city |-> Str("PleasantVille")])>>),
                List(<<Dict([use |-> Str("home"), line |-> Str("534 Erewhon St")])>>),
                List(<<Dict([use |-> Str("invalid_use")])>>)},
        q \in QualificationLists}

----------------------------------------------------------------------------
(* One convert_to_fhir call.  A frame is the state of the call: the        *)
(* caller's record it works on and its locals.  Each step of the call is   *)
(* a function from frame to frame; the actions below apply the steps to    *)
(* the state, and convert_to_fhir runs them to completion.                 *)

NoResult == [status |-> "none"]
Returned(v) == [status |-> "returned", value |-> v]
Raised(e) == [status |-> "raised", exc |-> e]

\* the frame of a call that has not started
NewFrame(k, form) ==
    [kind |-> k, form_data |-> form, pc |-> "idle", validated |-> EmptyMap,
     errors |-> <<>>, raised |-> NoExc, current_year |-> 0, result |-> NoResult]

\* the stage after top-level field f of PatientInput
NextStage(f) ==
    LET i == CHOOSE i \in 1..Len(PatientInputFields) : PatientInputFields[i] = f
    IN  IF i < Len(PatientInputFields) THEN PatientInputFields[i + 1] ELSE "validate_names"

\* str(e) of a pydantic ValidationError: the descriptions of its line errors
ValidationError(errs) == Exc("ValidationError", Flatten(errs))

\* convert_to_fhir enters its try block: PatientInput(**form_data) or
\* PractitionerInput(**form_data) unpacks the argument
CallStep(fr) ==
    IF fr.form_data.t # "dict"
        THEN [fr EXCEPT !.raised = Exc("TypeError", <<"argument after ** must be a mapping">>),
                        !.pc = "except"]
        ELSE [fr EXCEPT !.pc = IF fr.kind = "Practitioner" THEN "PractitionerInput"
                                                             ELSE PatientInputFields[1]]

\* validate_date_format reads the clock only when strptime has succeeded
ReadsClock(v) ==
    /\ Truthy(v)
    /\ IsStr(v)
    /\ MatchesDatePattern(v.c)
    /\ strptime(v.c).ok

\* the outcome `out` of top-level field f of PatientInput joins the call:
\* line errors are collected, any other exception propagates, and what a
\* "before" validator wrote is written in the caller's mappings
Collect(fr, f, now, out) ==
    LET errs == fr.errors \o out.errs
        form == IF f \in DOMAIN fr.form_data.d
                    THEN Dict([fr.form_data.d EXCEPT ![f] = out.raw])
                    ELSE fr.form_data
        year == IF f = "birthDate" /\ ReadsClock(Get(fr.form_data, f)) THEN now
                ELSE fr.current_year
        seen == [fr EXCEPT !.form_data = form, !.errors = errs, !.current_year = year]
    IN  IF out.exc # NoExc
            THEN [seen EXCEPT !.raised = out.exc, !.pc = "except"]
        ELSE IF NextStage(f) = "validate_names" /\ errs # <<>>
            THEN [seen EXCEPT !.raised = ValidationError(errs), !.pc = "except"]
        ELSE [seen EXCEPT !.validated = (f :> out.val) @@ fr.validated, !.pc = NextStage(f)]

\* pydantic validates top-level field f of PatientInput
FieldStep(fr, f, now) == Collect(fr, f, now, PatientInputField(fr.form_data, f, now))

\* AggregateStep, had the outcome of validate_names been ignored
AggregateStep_Skip(fr) == [fr EXCEPT !.pc = "assemble"]

\* PatientInput.validate_names runs once every field has validated
AggregateStep(fr) ==
    IF validate_names(fr.validated.names)
        THEN [fr EXCEPT !.pc = "assemble"]
        ELSE [fr EXCEPT !.pc = "except",
                        !.raised = ValidationError(<<
                            <<"At least one name must have either a family name or a given name">> >>)]

\* PractitionerInput(**form_data)
PractitionerInputStep(fr) ==
    LET m == PractitionerInput(fr.form_data)
    IN  IF m.errs # <<>>
            THEN [fr EXCEPT !.errors = m.errs, !.raised = ValidationError(m.errs), !.pc = "except"]
            ELSE [fr EXCEPT !.validated = m.val.d, !.pc = "assemble"]

\* the PatientInput of the id-generating converter has no model validator:
\* once its last field has validated the model is built
NoModelValidator(fr) == IF fr.pc = "validate_names" THEN [fr EXCEPT !.pc = "assemble"] ELSE fr

\* pydantic validates top-level field f of that PatientInput
FieldStepWithId(fr, f, now) ==
    NoModelValidator(Collect(fr, f, now, PatientInputWithIdField(fr.form_data, f, now)))

\* the rest of the try block: build and return the resource; id is what
\* generate_id returns (patient.py generates none)
AssembleStep(fr, id) ==
    [fr EXCEPT !.result = Returned(CASE fr.kind = "Patient" -> PatientResource(fr.validated)
                                     [] fr.kind = "Practitioner" ->
                                            PractitionerResource(fr.validated, id)
                                     [] fr.kind = "PatientWithId" ->
                                            PatientResourceWithId(fr.validated, id)),
               !.pc = "done"]

\* WrapException, had the facade caught pydantic's ValidationError only
WrapException_ValidationOnly(e) ==
    IF e.type = "ValidationError"
        THEN Exc("FHIRValidationError", <<"Failed to convert to FHIR format: ">> \o e.msg)
        ELSE e

\* except Exception as e: raise FHIRValidationError(f"Failed ...: {str(e)}")
WrapException(e) ==
    Exc("FHIRValidationError", <<"Failed to convert to FHIR format: ">> \o e.msg)

ExceptStep(fr) == [fr EXCEPT !.result = Raised(WrapException(fr.raised)), !.pc = "done"]

\* the step the call takes next
Step(fr, now, id) ==
    CASE fr.pc = "idle" -> CallStep(fr)
      [] fr.pc \in Range(PatientInputFields) ->
            IF fr.kind = "PatientWithId" THEN FieldStepWithId(fr, fr.pc, now)
                                         ELSE FieldStep(fr, fr.pc, now)
      [] fr.pc = "validate_names" -> AggregateStep(fr)
      [] fr.pc = "PractitionerInput" -> PractitionerInputStep(fr)
      [] fr.pc = "assemble" -> AssembleStep(fr, id)
      [] fr.pc = "except" -> ExceptStep(fr)

RECURSIVE Run(_, _, _)
Run(fr, now, id) == IF fr.pc = "done" THEN fr ELSE Run(Step(fr, now, id), now, id)

\* convert_to_fhir(form_data) as a function: the final frame (result and the
\* caller's record as the call leaves it) of a call made in year `now`
convert_to_fhir(k, form, now, id) == Run(NewFrame(k, form), now, id)

----------------------------------------------------------------------------
(* The state machine *)

\* values str(uuid.uuid4()) may return
Ids == {"id-1", "id-2"}

\* the call's frame in the current state
Frame ==
    [kind |-> kind, form_data |-> form_data, pc |-> pc, validated |-> validated,
     errors |-> errors, raised |-> raised, current_year |-> current_year, result |-> result]

\* the state becomes frame fr
Becomes(fr) ==
    /\ form_data' = fr.form_data
    /\ pc' = fr.pc
    /\ validated' = fr.validated
    /\ errors' = fr.errors
    /\ raised' = fr.raised
    /\ current_year' = fr.current_year
    /\ result' = fr.result
    /\ UNCHANGED <<clock, kind, input, records, threads>>

Init ==
    /\ clock = MinYear
    /\ kind \in {"Patient", "Practitioner"}
    /\ input \in (IF kind = "Patient" THEN PatientInputs ELSE PractitionerInputs)
    /\ form_data = input
    /\ pc = "idle"
    /\ validated = EmptyMap
    /\ errors = <<>>
    /\ raised = NoExc
    /\ current_year = 0
    /\ result = NoResult
    /\ records = <<>>
    /\ threads = <<>>

\* the wall clock passes into the next year
Tick ==
    /\ clock < MaxYear
    /\ clock' = clock + 1
    /\ UNCHANGED <<kind, form_data, pc, validated, errors, raised, current_year, result, input,
                   records, threads>>

Call == pc = "idle" /\ Becomes(CallStep(Frame))

ValidateField(f) == pc = f /\ kind = "Patient" /\ Becomes(FieldStep(Frame, f, clock))

ValidateIdentifiers == ValidateField("identifiers")
ValidateNames == ValidateField("names")
ValidateContacts == ValidateField("contacts")
ValidateGender == ValidateField("gender")
ValidateBirthDate == ValidateField("birthDate")
ValidateAddresses == ValidateField("addresses")
ValidateMaritalStatus == ValidateField("maritalStatus")
ValidateLanguages == ValidateField("languages")

ValidateNamesAggregate == pc = "validate_names" /\ Becomes(AggregateStep(Frame))

ValidatePractitionerInput == pc = "PractitionerInput" /\ Becomes(PractitionerInputStep(Frame))

AssemblePatient ==
    /\ pc = "assemble"
    /\ kind = "Patient"
    /\ Becomes(AssembleStep(Frame, "id-1"))

AssemblePractitioner ==
    /\ pc = "assemble"
    /\ kind = "Practitioner"
    /\ \E id \in Ids : Becomes(AssembleStep(Frame, id))

Except == pc = "except" /\ Becomes(ExceptStep(Frame))

Next ==
    \/ Tick
    \/ Call
    \/ ValidateIdentifiers
    \/ ValidateNames
    \/ ValidateContacts
    \/ ValidateGender
    \/ ValidateBirthDate
    \/ ValidateAddresses
    \/ ValidateMaritalStatus
    \/ ValidateLanguages
    \/ ValidateNamesAggregate
    \/ AssemblePatient
    \/ ValidatePractitionerInput
    \/ AssemblePractitioner
    \/ Except

Spec == Init /\ [][Next]_vars

\* The same caller with the id-generating Patient converter
InitWithId ==
    /\ clock = MinYear
    /\ kind = "PatientWithId"
    /\ input \in PatientInputs
    /\ form_data = input
    /\ pc = "idle"
    /\ validated = EmptyMap
    /\ errors = <<>>
    /\ raised = NoExc
    /\ current_year = 0
    /\ result = NoResult
    /\ records = <<>>
    /\ threads = <<>>

ValidateFieldWithId(f) ==
    pc = f /\ kind = "PatientWithId" /\ Becomes(FieldStepWithId(Frame, f, clock))

AssemblePatientWithId ==
    /\ pc = "assemble"
    /\ kind = "PatientWithId"
    /\ \E id \in Ids : Becomes(AssembleStep(Frame, id))

NextWithId ==
    \/ Tick
    \/ Call
    \/ \E f \in Range(PatientInputFields) : ValidateFieldWithId(f)
    \/ AssemblePatientWithId
    \/ Except

SpecWithId == InitWithId /\ [][NextWithId]_vars

----------------------------------------------------------------------------
(* Patient calls made from two threads.  The interpreter may switch        *)
(* threads between any two bytecodes of a Python function, so the test,    *)
(* the read and the write of a "before" validator are steps of their own;  *)
(* what pydantic does between two calls of Python code is one step.        *)

Threads == {1, 2}

\* records with and without bare scalars in their names and addresses
ThreadInputs ==
    {MkDict(BaseInput),
     With("names", List(<<Dict([given |-> Str("John")])>>)),
     With("names", List(<<Dict([family |-> Str("Smith"), prefix |-> Str("Mr"),
                                suffix |-> Str("Jr")])>>)),
     With("names", List(<<Dict([family |-> None, given |-> None]),
                          Dict([given |-> Str("John")])>>)),
     With("addresses", List(<<Dict([line |-> Str("123 Main St")])>>))}

\* the fields the "before" validator of the elements of section k tests
NormalizerFields(k) == IF k = "names" THEN <<"given", "prefix", "suffix">> ELSE <<"line">>

\* section k of the record is a non-empty list of mappings, so pydantic
\* calls the "before" validator on each element in turn
ElementWise(rec, k) ==
    /\ k \in {"names", "addresses"}
    /\ k \in DOMAIN rec.d
    /\ rec.d[k].t = "list"
    /\ Len(rec.d[k].l) > 0
    /\ \A i \in 1..Len(rec.d[k].l) : rec.d[k].l[i].t = "dict"

\* pydantic validates the fields of an element once its "before" validator
\* has returned
ElementModel(k, values) ==
    IF k = "names"
        THEN BuildModel(values, HumanNameFields,
                [f \in Range(HumanNameFields) |-> HumanNameField(values, f)])
        ELSE BuildModel(values, AddressFields,
                [f \in Range(AddressFields) |-> AddressField(values, f)])

\* a thread about to call convert_to_fhir on record number arg
NewThread(arg, rec) ==
    [arg |-> arg, input |-> rec, fr |-> NewFrame("Patient", rec),
     at |-> "frame", i |-> 0, j |-> 0, tmp |-> None, items |-> <<>>]

\* the frame of thread th, seeing the record as it is now
FrameOf(th) == [th.fr EXCEPT !.form_data = records[th.arg]]

\* the mapping a thread's "before" validator is working on
ValuesOf(th) == records[th.arg].d[th.fr.pc].l[th.i]

\* the validator moves to its next field, or returns
Advance(th) ==
    IF th.j < Len(NormalizerFields(th.fr.pc))
        THEN [th EXCEPT !.j = @ + 1, !.at = "check"]
        ELSE [th EXCEPT !.at = "validate"]

InitThreads ==
    /\ clock = MinYear
    /\ kind = "Patient"
    /\ input = None
    /\ form_data = None
    /\ pc = "idle"
    /\ validated = EmptyMap
    /\ errors = <<>>
    /\ raised = NoExc
    /\ current_year = 0
    /\ result = NoResult
    /\ records \in {<<r>> : r \in ThreadInputs}
                    \cup {<<r1, r2>> : r1 \in ThreadInputs, r2 \in ThreadInputs}
    /\ threads = [t \in Threads |->
                    LET arg == IF t <= Len(records) THEN t ELSE Len(records)
                    IN  NewThread(arg, records[arg])]

Sequential == <<clock, kind, form_data, pc, validated, errors, raised, current_year, result, input>>

\* thread t goes on with frame fr, which holds the record as the step left it
Resume(t, fr) ==
    /\ threads' = [threads EXCEPT ![t].fr = fr]
    /\ records' = [records EXCEPT ![threads[t].arg] = fr.form_data]
    /\ UNCHANGED Sequential

\* a step of the call that runs no "before" validator
ThreadStep(t) ==
    /\ threads[t].at = "frame"
    /\ threads[t].fr.pc # "done"
    /\ ~ElementWise(records[threads[t].arg], threads[t].fr.pc)
    /\ Resume(t, Step(FrameOf(threads[t]), clock, "id-1"))

\* pydantic starts on the list of names or addresses
ThreadEnter(t) ==
    LET th == threads[t]
    IN  /\ th.at = "frame"
        /\ ElementWise(records[th.arg], th.fr.pc)
        /\ threads' = [threads EXCEPT ![t] = [th EXCEPT !.at = "check", !.i = 1, !.j = 1,
                                                          !.items = <<>>]]
        /\ UNCHANGED <<records, Sequential>>

\* if isinstance(values.get(field), str):
ThreadCheck(t) ==
    LET th == threads[t]
        field == NormalizerFields(th.fr.pc)[th.j]
    IN  /\ th.at = "check"
        /\ threads' = [threads EXCEPT ![t] = IF IsStr(Get(ValuesOf(th), field))
                                                THEN [th EXCEPT !.at = "load"]
                                                ELSE Advance(th)]
        /\ UNCHANGED <<records, Sequential>>

\* the right-hand side [values[field]] is evaluated
ThreadLoad(t) ==
    LET th == threads[t]
        field == NormalizerFields(th.fr.pc)[th.j]
    IN  /\ th.at = "load"
        /\ threads' = [threads EXCEPT ![t] = [th EXCEPT !.at = "store",
                                                          !.tmp = List(<<ValuesOf(th).d[field]>>)]]
        /\ UNCHANGED <<records, Sequential>>

\* values[field] = ... stores it in the caller's mapping
ThreadStore(t) ==
    LET th == threads[t]
        k == th.fr.pc
        field == NormalizerFields(k)[th.j]
        rec == records[th.arg]
        values == Dict([ValuesOf(th).d EXCEPT ![field] = th.tmp])
    IN  /\ th.at = "store"
        /\ records' = [records EXCEPT ![th.arg] =
                            Dict([rec.d EXCEPT ![k] = List([rec.d[k].l EXCEPT ![th.i] = values])])]
        /\ threads' = [threads EXCEPT ![t] = Advance([th EXCEPT !.tmp = None])]
        /\ UNCHANGED Sequential

\* the element list of thread th is closed with the outcomes items
CloseList(th, list, items) ==
    [th EXCEPT !.at = "frame", !.i = 0, !.j = 0, !.items = <<>>,
               !.fr = Collect(FrameOf(th), th.fr.pc, clock,
                              [ModelList(list, items) EXCEPT !.raw = list])]

\* thread th has the outcome item of its current element
Validated(th, list, item) ==
    IF th.i < Len(list.l)
        THEN [th EXCEPT !.at = "check", !.i = @ + 1, !.j = 1, !.items = Append(@, item)]
        ELSE CloseList(th, list, Append(th.items, item))

\* the validator has returned values: pydantic validates the element's
\* fields, then goes on to the next element or closes the list
ThreadValidate(t) ==
    /\ threads[t].at = "validate"
    /\ threads' = [threads EXCEPT ![t] =
                        Validated(threads[t], records[threads[t].arg].d[threads[t].fr.pc],
                                  ElementModel(threads[t].fr.pc, ValuesOf(threads[t])))]
    /\ UNCHANGED <<records, Sequential>>

NextThreads ==
    \E t \in Threads :
        \/ ThreadStep(t)
        \/ ThreadEnter(t)
        \/ ThreadCheck(t)
        \/ ThreadLoad(t)
        \/ ThreadStore(t)
        \/ ThreadValidate(t)

SpecThreads == InitThreads /\ [][NextThreads]_vars

----------------------------------------------------------------------------
(* Properties *)

Done(k) == pc = "done" /\ kind = k
Succeeded == result.status = "returned"
Failed == result.status = "raised" /\ result.exc.type = "FHIRValidationError"

\* values of the top-level sections that are valid whatever else the record holds
ValidSections ==
    [identifiers |-> {List(<<Dict([system |-> Str("urn:a"), value |-> Str("1")])>>)},
     names |-> {List(<<ValidName>>)},
     contacts |-> {List(<<ValidContact>>)},
     gender |-> {Str("male")},
     birthDate |-> {ValidDate},
     addresses |-> {List(<<ValidAddress>>)}]

\* record inp is valid in every section other than k
OthersValid(inp, k) ==
    /\ inp.t = "dict"
    /\ "names" \in DOMAIN inp.d \/ k = "names"
    /\ \A j \in DOMAIN inp.d \ {k} : j \in DOMAIN ValidSections /\ inp.d[j] \in ValidSections[j]

IsStrList(v) == v.t = "list" /\ \A i \in 1..Len(v.l) : v.l[i].t = "str"

\* every field of raw name n has an acceptable type (scalar or list where a list is meant)
NameWellTyped(n) ==
    /\ n.t = "dict"
    /\ Get(n, "use") = None \/ (Get(n, "use").t = "str" /\ Get(n, "use").s \in NameUse)
    /\ Get(n, "family").t \in {"none", "str"}
    /\ \A f \in {"given", "prefix", "suffix"} :
            Get(n, f).t \in {"none", "str"} \/ IsStrList(Get(n, f))

\* the record varies only in names, and every name it has is well typed
NamesCase(inp) ==
    /\ OthersValid(inp, "names")
    /\ "names" \in DOMAIN inp.d =>
            /\ inp.d.names.t = "list"
            /\ \A i \in 1..Len(inp.d.names.l) : NameWellTyped(inp.d.names.l[i])

NonEmptyFamily(n) == Get(n, "family").t = "str" /\ Get(n, "family").s # ""

\* a bare scalar given stands for the one-element sequence
NonEmptyGiven(n) ==
    \/ Get(n, "given").t = "str"
    \/ (Get(n, "given").t = "list" /\ Len(Get(n, "given").l) > 0)

NameRule(inp) ==
    /\ "names" \in DOMAIN inp.d
    /\ inp.d.names.t = "list"
    /\ Len(inp.d.names.l) > 0
    /\ \E i \in 1..Len(inp.d.names.l) :
            NonEmptyFamily(inp.d.names.l[i]) \/ NonEmptyGiven(inp.d.names.l[i])

\* C1: a Patient input whose fields are otherwise valid converts if and only
\* if names is a non-empty sequence in which at least one element has a
\* non-empty family or a non-empty given sequence (existential rule);
\* otherwise the call fails with FHIRValidationError.
C1_ExistentialNameRule ==
    (Done("Patient") /\ NamesCase(input)) =>
        /\ Succeeded <=> NameRule(input)
        /\ ~Succeeded => Failed

\* only the second of two names carries a family name, and the call succeeded
C1_Witness ==
    /\ Done("Patient")
    /\ input = With("names", List(<<Dict([family |-> None, given |-> None]),
                                    Dict([family |-> Str("Smith")])>>))
    /\ Succeeded

\* top-level key of the resource that holds each section
PatientKey ==
    [identifiers |-> "identifier", names |-> "name", contacts |-> "telecom",
     gender |-> "gender", birthDate |-> "birthDate", addresses |-> "address",
     maritalStatus |-> "maritalStatus", languages |-> "communication"]

PractitionerKey ==
    [identifier |-> "identifier", name |-> "name", address |-> "address",
     qualification |-> "qualification"]

\* resource out holds every validated, non-empty section of vd, entry for entry
Complete(out, vd, key) ==
    /\ {"resourceType", "active"} \subseteq DOMAIN out.d
    /\ \A f \in DOMAIN key :
          Truthy(vd[f]) =>
              /\ key[f] \in DOMAIN out.d
              /\ vd[f].t = "list" => Len(out.d[key[f]].l) = Len(vd[f].l)

\* C2: every call ends either returning a complete resource (nothing was
\* raised, no line error was collected) or raising one FHIRValidationError
\* whose message is the fixed prefix followed by the description of the
\* original cause; no other error kind reaches the caller.
C2_ErrorCollapse ==
    pc = "done" =>
        \/ /\ result.status = "returned"
           /\ raised = NoExc
           /\ errors = <<>>
           /\ Complete(result.value, validated,
                       IF kind = "Patient" THEN PatientKey ELSE PractitionerKey)
        \/ /\ result.status = "raised"
           /\ result.exc.type = "FHIRValidationError"
           /\ raised # NoExc
           /\ raised.msg # <<>>
           /\ result.exc.msg = <<"Failed to convert to FHIR format: ">> \o raised.msg

\* a failure that is not a pydantic ValidationError reached the facade and
\* left it as FHIRValidationError
C2_Witness ==
    /\ pc = "done"
    /\ raised.type = "AttributeError"
    /\ Failed

BadEnum(v, members) == v.t = "str" /\ "s" \in DOMAIN v /\ v.s \notin members

\* some mapping of list v holds a non-member string under key k
ElemBadEnum(v, k, members) ==
    /\ v.t = "list"
    /\ \E i \in 1..Len(v.l) : v.l[i].t = "dict" /\ BadEnum(Get(v.l[i], k), members)

HasBadEnum(inp) ==
    /\ inp.t = "dict"
    /\ \/ BadEnum(Get(inp, "gender"), Gender)
       \/ ElemBadEnum(Get(inp, "names"), "use", NameUse)
       \/ ElemBadEnum(Get(inp, "contacts"), "system", ContactSystem)
       \/ ElemBadEnum(Get(inp, "contacts"), "use", ContactUse)
       \/ ElemBadEnum(Get(inp, "addresses"), "use", AddressUse)
       \/ ElemBadEnum(Get(inp, "addresses"), "type", AddressType)

\* C3: a Patient input in which any enum-typed field (gender, name use,
\* contact system, contact use, address use, address type) holds a string
\* that is not exactly a member of its enum fails with FHIRValidationError,
\* whatever the other fields hold.
C3_EnumRejection == (Done("Patient") /\ HasBadEnum(input)) => Failed

\* the contact system "whatsapp" was rejected
C3_Witness ==
    /\ Done("Patient")
    /\ input = With("contacts", List(<<Dict([system |-> Str("whatsapp"),
                                             value |-> Chars(PhoneText(10, "plus"))])>>))
    /\ Failed

\* the literal pattern YYYY-MM-DD: four digits, dash, two digits, dash, two digits
LiteralDatePattern(cs) ==
    /\ Len(cs) = 10
    /\ \A i \in {1, 2, 3, 4, 6, 7, 9, 10} : cs[i] \in Range(DigitChars)
    /\ cs[5] = "-"
    /\ cs[8] = "-"

YearOf(cs) == 1000 * DigitVal(cs[1]) + 100 * DigitVal(cs[2]) + 10 * DigitVal(cs[3]) + DigitVal(cs[4])
MonthOf(cs) == 10 * DigitVal(cs[6]) + DigitVal(cs[7])
DayOf(cs) == 10 * DigitVal(cs[9]) + DigitVal(cs[10])

\* the text names a day of the calendar
RealCalendarDate(cs) ==
    /\ YearOf(cs) >= 1
    /\ MonthOf(cs) \in 1..12
    /\ DayOf(cs) >= 1
    /\ DayOf(cs) <= (CASE MonthOf(cs) = 2 ->
                            IF YearOf(cs) % 4 = 0 /\ (YearOf(cs) % 100 # 0 \/ YearOf(cs) % 400 = 0)
                                THEN 29 ELSE 28
                       [] MonthOf(cs) \in {4, 6, 9, 11} -> 30
                       [] OTHER -> 31)

DateRule(v, now) ==
    /\ v.t = "str"
    /\ LiteralDatePattern(v.c)
    /\ RealCalendarDate(v.c)
    /\ 1900 <= YearOf(v.c)
    /\ YearOf(v.c) <= now

\* the record varies only in birthDate, and supplies one
BirthDateCase(inp) ==
    /\ OthersValid(inp, "birthDate")
    /\ "birthDate" \in DOMAIN inp.d
    /\ inp.d.birthDate # None

\* C4: a supplied birthDate is accepted if and only if it matches the
\* literal pattern YYYY-MM-DD, is a real calendar date and has
\* 1900 <= year <= current year; a string that fails the pattern is rejected
\* on its format, before the clock is read and any range check is made.
C4_DateBounds ==
    (Done("Patient") /\ BirthDateCase(input)) =>
        /\ Succeeded <=> DateRule(input.d.birthDate, current_year)
        /\ (input.d.birthDate.t = "str" /\ ~LiteralDatePattern(input.d.birthDate.c)) =>
                /\ Failed
                /\ current_year = 0
                /\ "Birth year must be between 1900 and current year" \notin Range(raised.msg)

\* number of digit characters of a text
DigitCount(cs) == Cardinality({i \in 1..Len(cs) : cs[i] \in Range(DigitChars)})

\* the record varies only in contacts, which is one mapping with a string
\* system, a string value and no use
ContactCase(inp) ==
    /\ OthersValid(inp, "contacts")
    /\ "contacts" \in DOMAIN inp.d
    /\ inp.d.contacts.t = "list"
    /\ Len(inp.d.contacts.l) = 1
    /\ inp.d.contacts.l[1].t = "dict"
    /\ DOMAIN inp.d.contacts.l[1].d = {"system", "value"}
    /\ inp.d.contacts.l[1].d.system.t = "str"
    /\ inp.d.contacts.l[1].d.value.t = "str"

TheContact == input.d.contacts.l[1].d

ValueRuleMessages == {"Invalid email format", "Invalid phone number length"}

\* C6: the value rule follows the validated system: an email value is
\* accepted iff it contains "@" and "."; a fax, pager, url, sms or other
\* contact is accepted with any string value; the email rule never rejects
\* a non-email contact nor the phone rule a non-phone contact; a contact
\* whose system is not a member is rejected without a value rule applied.
C6_ContactRuleBySystem ==
    (Done("Patient") /\ ContactCase(input)) =>
        /\ TheContact.system.s = "email" =>
                (Succeeded <=> (Contains(TheContact.value.c, "@") /\ Contains(TheContact.value.c, ".")))
        /\ TheContact.system.s \in {"fax", "pager", "url", "sms", "other"} => Succeeded
        /\ ~Succeeded =>
                /\ Failed
                /\ TheContact.system.s # "email" => "Invalid email format" \notin Range(raised.msg)
                /\ TheContact.system.s # "phone" => "Invalid phone number length" \notin Range(raised.msg)
        /\ TheContact.system.s \notin ContactSystem =>
                /\ Failed
                /\ Range(raised.msg) \cap ValueRuleMessages = {}

\* a fax contact whose value has no "@", no "." and no digit was accepted
C6_Witness ==
    /\ Done("Patient")
    /\ input = With("contacts", List(<<Dict([system |-> Str("fax"), value |-> Chars(<<"a", "b">>)])>>))
    /\ Succeeded

\* the year a call in the current state has used, or would use, as current year
YearSeen == IF current_year = 0 THEN clock ELSE current_year

\* the mappings of list v (none when v is not a list)
MappingsOf(v) == IF v.t = "list" THEN {i \in 1..Len(v.l) : v.l[i].t = "dict"} ELSE {}

\* record inp with field f of element i of section k, a bare scalar X, replaced by [X]
Twin(inp, k, i, f) ==
    Dict([inp.d EXCEPT ![k] =
            List([@.l EXCEPT ![i] = Dict([@.d EXCEPT ![f] = List(<<@>>)])])])

\* the input carries field f of element i of section k as a bare string
Scalar(inp, k, i, f) == Get(inp.d[k].l[i], f).t = "str"

\* entry i of output list key holds raw field v as the normalizer must leave it
Normalized(entry, f, v) ==
    CASE v.t = "none" -> f \notin DOMAIN entry.d
      [] v.t = "str"  -> f \in DOMAIN entry.d /\ entry.d[f] = List(<<v>>)
      [] OTHER        -> f \in DOMAIN entry.d /\ entry.d[f] = v

\* C7: for given, prefix, suffix of a name and line of an address, the call
\* on an input carrying the bare scalar X has the same outcome as the call on
\* the otherwise identical input carrying [X]; in the output a scalar appears
\* as the one-element list, a list appears unchanged, an absent field is absent.
C7_RoundTripCoercion ==
    (Done("Patient") /\ input.t = "dict") =>
        /\ \A i \in MappingsOf(Get(input, "names")) : \A f \in {"given", "prefix", "suffix"} :
                /\ Scalar(input, "names", i, f) =>
                        convert_to_fhir("Patient", Twin(input, "names", i, f), YearSeen, "id-1").result
                            = result
                /\ Succeeded => Normalized(result.value.d.name.l[i], f, Get(input.d.names.l[i], f))
        /\ \A i \in MappingsOf(Get(input, "addresses")) :
                /\ Scalar(input, "addresses", i, "line") =>
                        convert_to_fhir("Patient", Twin(input, "addresses", i, "line"), YearSeen, "id-1").result
                            = result
                /\ Succeeded => Normalized(result.value.d.address.l[i], "line",
                                           Get(input.d.addresses.l[i], "line"))

\* a name with scalar prefix and suffix was converted, both wrapped
C7_Witness ==
    /\ Done("Patient")
    /\ input = With("names", List(<<Dict([use |-> Str("official"), family |-> Str("Smith"),
                                          prefix |-> Str("Mr"), suffix |-> Str("Jr")])>>))
    /\ Succeeded
    /\ result.value.d.name.l[1].d.prefix = List(<<Str("Mr")>>)
    /\ result.value.d.name.l[1].d.suffix = List(<<Str("Jr")>>)

\* entry holds exactly the non-null fields of the validated model m, with their values
OnlyPresent(entry, m) ==
    /\ DOMAIN entry.d = {k \in DOMAIN m.d : m.d[k] # None}
    /\ \A k \in DOMAIN entry.d : entry.d[k] # None /\ entry.d[k] = m.d[k]

\* C8: in a successful Patient conversion each entry of the output name and
\* address lists has exactly the keys whose validated value is non-null, and
\* no key is mapped to null.
C8_OptionalFieldOmission ==
    (Done("Patient") /\ Succeeded) =>
        /\ Len(result.value.d.name.l) = Len(validated.names.l)
        /\ \A i \in 1..Len(validated.names.l) :
                OnlyPresent(result.value.d.name.l[i], validated.names.l[i])
        /\ "address" \in DOMAIN result.value.d =>
                /\ Len(result.value.d.address.l) = Len(validated.addresses.l)
                /\ \A i \in 1..Len(validated.addresses.l) :
                        OnlyPresent(result.value.d.address.l[i], validated.addresses.l[i])

\* a name given with only family was emitted with family as its only key
C8_Witness ==
    /\ Done("Patient")
    /\ input = With("names", List(<<Dict([family |-> Str("Smith")])>>))
    /\ Succeeded
    /\ DOMAIN result.value.d.name.l[1].d = {"family"}

TypeCoding(code) ==
    Dict([coding |-> List(<<Dict([system |-> Str("http://terminology.hl7.org/CodeSystem/v2-0203"),
                                  code |-> code])>>)])

\* C9: in a successful Patient conversion an identifier that has a type is
\* emitted with type = {coding: [{system: <v2-0203 URL>, code: <type>}]} and
\* an identifier without a type is emitted with no type key at all.
C9_IdentifierTypeEmission ==
    (Done("Patient") /\ Succeeded /\ "identifier" \in DOMAIN result.value.d) =>
        \A i \in 1..Len(validated.identifiers.l) :
            LET entry == result.value.d.identifier.l[i].d
                type == validated.identifiers.l[i].d.type
            IN  IF type # None
                    THEN "type" \in DOMAIN entry /\ entry.type = TypeCoding(type)
                    ELSE "type" \notin DOMAIN entry

\* C10: in a successful Practitioner conversion the output active equals the
\* validated input active when the input supplies it, and is true only by
\* default when the input does not supply it.
C10_PractitionerActive ==
    (Done("Practitioner") /\ Succeeded) =>
        result.value.d.active = (IF validated.active # None THEN validated.active ELSE BoolV(TRUE))

\* some element of the Practitioner name list has a non-empty family or a
\* non-empty given sequence
PractitionerNameRule(inp) ==
    /\ "name" \in DOMAIN inp.d
    /\ inp.d.name.t = "list"
    /\ \E i \in MappingsOf(inp.d.name) :
            \/ NonEmptyFamily(inp.d.name.l[i])
            \/ (Get(inp.d.name.l[i], "given").t = "list" /\ Len(Get(inp.d.name.l[i], "given").l) > 0)

\* every field of the Practitioner record other than name is absent or holds
\* a value of the declared shape (sequences where sequences are declared, a
\* qualification with a non-empty coding)
PractitionerOthersValid(inp) ==
    /\ Get(inp, "active").t \in {"none", "bool"}
    /\ \A i \in MappingsOf(Get(inp, "name")) :
            \A f \in {"given", "prefix", "suffix"} : Get(inp.d.name.l[i], f).t \in {"none", "list"}
    /\ \A i \in MappingsOf(Get(inp, "address")) :
            /\ Get(inp.d.address.l[i], "line").t \in {"none", "list"}
            /\ Get(inp.d.address.l[i], "use") \in {None} \cup {Str(m) : m \in AddressUse}
    /\ \A i \in MappingsOf(Get(inp, "qualification")) :
            LET code == Get(inp.d.qualification.l[i], "code")
            IN  /\ code.t = "dict"
                /\ Get(code, "coding").t = "list"
                /\ Len(Get(code, "coding").l) > 0

\* C11: a Practitioner conversion fails whenever no element of the name
\* sequence has a non-empty family or a non-empty given sequence, and
\* succeeds when at least one element has and every other field is valid.
C11_PractitionerNameRule ==
    (Done("Practitioner") /\ input.t = "dict") =>
        /\ ~PractitionerNameRule(input) => Failed
        /\ (PractitionerNameRule(input) /\ PractitionerOthersValid(input)) => Succeeded

\* the input has a qualification whose code.coding is an empty sequence
HasEmptyCoding(inp) ==
    \E i \in MappingsOf(Get(inp, "qualification")) :
        LET code == Get(inp.d.qualification.l[i], "code")
        IN  code.t = "dict" /\ Get(code, "coding") = List(<<>>)

\* C12: a Practitioner input with a qualification whose code.coding is
\* empty fails to convert, and no successful Practitioner output holds a
\* qualification entry whose code.coding list is empty.
C12_QualificationCoding ==
    (Done("Practitioner") /\ input.t = "dict") =>
        /\ HasEmptyCoding(input) => Failed
        /\ (Succeeded /\ "qualification" \in DOMAIN result.value.d) =>
                \A i \in 1..Len(result.value.d.qualification.l) :
                    result.value.d.qualification.l[i].d.code.d.coding # List(<<>>)

\* a resource without its generated id
WithoutId(v) == Dict([k \in DOMAIN v.d \ {"id"} |-> v.d[k]])

\* the result of one more call, made in the same year on record rec, when
\* generate_id returns id
Again(rec, id) == convert_to_fhir(kind, rec, YearSeen, id).result

\* C13: for either resource kind and every input, a second convert call
\* with identical input in the same year fails when the first failed and
\* otherwise returns an output with identical key/value pairs.
C13_Idempotence ==
    pc = "done" => \A id \in Ids : Again(input, id) = result

\* C13 as amended: a second call on the same input, or on the caller's
\* record as the first call left it, fails with the same error when the
\* first failed and otherwise returns an output that agrees with the first
\* on every key other than the generated id; a Patient output has no
\* generated id and is identical.
C13_IdempotenceButId ==
    pc = "done" =>
        \A id \in Ids : \A rec \in {input, form_data} :
            LET again == Again(rec, id)
            IN  /\ again.status = result.status
                /\ Failed => again = result
                /\ Succeeded => WithoutId(again.value) = WithoutId(result.value)
                /\ kind = "Patient" => again = result

\* a Practitioner call succeeded with one id, and the same call returns
\* the same resource under another id
C13_Witness ==
    /\ Done("Practitioner")
    /\ Succeeded
    /\ \E id \in Ids :
            /\ Again(input, id) # result
            /\ WithoutId(Again(input, id).value) = WithoutId(result.value)

\* the record of the end-to-end example and the resource it must yield
ExampleName ==
    Dict([use |-> Str("official"), family |-> Str("Smith"),
          given |-> List(<<Str("John"), Str("Peter")>>)])

ExampleInput ==
    Dict([names |-> List(<<ExampleName>>), gender |-> Str("male"),
          birthDate |-> Chars(<<"1", "9", "9", "0", "-", "0", "1", "-", "0", "1">>)])

ExampleOutput ==
    Dict([resourceType |-> Str("Patient"), active |-> BoolV(TRUE),
          name |-> List(<<ExampleName>>), gender |-> Str("male"),
          birthDate |-> Chars(<<"1", "9", "9", "0", "-", "0", "1", "-", "0", "1">>)])

\* C14: every successful Patient output has resourceType = "Patient" and
\* active = true, holds each of the keys identifier, name, telecom, gender,
\* birthDate, address, maritalStatus, communication exactly when the input
\* section it comes from is present and non-empty, and holds no other
\* top-level key; the end-to-end example yields exactly its stated output.
C14_PatientOutputShape ==
    (Done("Patient") /\ Succeeded) =>
        LET out == result.value.d
        IN  /\ {"resourceType", "active"} \subseteq DOMAIN out
            /\ out.resourceType = Str("Patient")
            /\ out.active = BoolV(TRUE)
            /\ DOMAIN out \subseteq {"resourceType", "active"} \cup {PatientKey[f] : f \in DOMAIN PatientKey}
            /\ \A f \in DOMAIN PatientKey :
                    PatientKey[f] \in DOMAIN out <=> (f \in DOMAIN input.d /\ Truthy(input.d[f]))
            /\ input = ExampleInput => result.value = ExampleOutput

\* the end-to-end example was converted
C14_Witness ==
    /\ Done("Patient")
    /\ input = ExampleInput
    /\ Succeeded
    /\ DOMAIN result.value.d = {"resourceType", "active", "name", "gender", "birthDate"}

\* C16: a convert call never modifies the caller's record: at every point
\* of a call, and after it, every mapping of the record holds the values it
\* held when the caller built it (a scalar given, prefix, suffix or line is
\* still a scalar).
C16_NoWriteToCallerData == form_data = input

\* the input has an identifier whose system or value is missing or empty
HasBadIdentifier(inp) ==
    \E i \in MappingsOf(Get(inp, "identifiers")) : \E f \in {"system", "value"} :
        Get(inp.d.identifiers.l[i], f) \in {None, Str("")}

\* C17: a Patient input with an identifier whose system or value is missing
\* or is the empty string is rejected, and every identifier of a successful
\* output has a non-empty system and a non-empty value.
C17_IdentifierRequiredFields ==
    (Done("Patient") /\ input.t = "dict") =>
        /\ HasBadIdentifier(input) => Failed
        /\ (Succeeded /\ "identifier" \in DOMAIN result.value.d) =>
                \A i \in 1..Len(result.value.d.identifier.l) :
                    /\ result.value.d.identifier.l[i].d.system \notin {None, Str("")}
                    /\ result.value.d.identifier.l[i].d.value \notin {None, Str("")}

\* the Practitioner call on the input whose scalar field f of element i of
\* section k is wrapped has the outcome of the observed call, with equal
\* name and address entries
SameAsWrapped(k, i, f) ==
    LET twin == convert_to_fhir("Practitioner", Twin(input, k, i, f), YearSeen, "id-1").result
    IN  /\ twin.status = result.status
        /\ Succeeded =>
                /\ Get(result.value, "name") = Get(twin.value, "name")
                /\ Get(result.value, "address") = Get(twin.value, "address")

\* C19: for a Practitioner input, a bare scalar string in a name's given,
\* prefix or suffix or in an address's line is treated as the one-element
\* sequence: the conversion has the outcome of the conversion of the input
\* carrying [X] (so it succeeds when that one does) and equals it in its
\* name and address entries.
C19_PractitionerNormalization ==
    (Done("Practitioner") /\ input.t = "dict") =>
        /\ \A i \in MappingsOf(Get(input, "name")) : \A f \in {"given", "prefix", "suffix"} :
                Scalar(input, "name", i, f) => SameAsWrapped("name", i, f)
        /\ \A i \in MappingsOf(Get(input, "address")) :
                Scalar(input, "address", i, "line") => SameAsWrapped("address", i, "line")

\* every field of PatientInput has validated without error
AllFieldsPassed ==
    /\ errors = <<>>
    /\ raised = NoExc
    /\ DOMAIN validated = Range(PatientInputFields)
    /\ \A f \in {"given", "prefix", "suffix"} : \A i \in MappingsOf(Get(input, "names")) :
            Scalar(input, "names", i, f) =>
                validated.names.l[i].d[f] = List(<<input.d.names.l[i].d[f]>>)
    /\ \A i \in MappingsOf(Get(input, "addresses")) :
            Scalar(input, "addresses", i, "line") =>
                validated.addresses.l[i].d.line = List(<<input.d.addresses.l[i].d.line>>)

\* where a Patient call stands, given what it has established so far
StageState ==
    /\ pc = "validate_names" => AllFieldsPassed
    /\ pc = "assemble" => AllFieldsPassed /\ validate_names(validated.names)
    /\ Succeeded => AllFieldsPassed /\ validate_names(validated.names)
    /\ (errors # <<>> /\ pc \in {"except", "done"}) => ~Succeeded

\* a Patient call moves from stage to stage in the one order
StageStep ==
    /\ pc' # pc =>
            /\ pc' \in Range(PatientInputFields) =>
                    \/ pc = "idle" /\ pc' = PatientInputFields[1]
                    \/ pc \in Range(PatientInputFields) /\ pc' = NextStage(pc)
            /\ pc' = "validate_names" => pc = PatientInputFields[Len(PatientInputFields)]
            /\ pc' = "assemble" => pc = "validate_names"
    /\ result' # result => pc \in {"assemble", "except"} /\ pc' = "done"
    /\ result'.status = "returned" => pc \in {"assemble", "done"}

\* C18: within one Patient call a name or address is validated as
\* normalized (a scalar was wrapped before its field was validated), the
\* aggregate name check is reached only after every field validated without
\* error, assembly is reached only after the aggregate check passed, and no
\* resource is returned after or despite a validation failure.
C18_StageOrder ==
    /\ [](kind = "Patient" => StageState)
    /\ [][kind = "Patient" => StageStep]_vars

\* a name given as a bare scalar went through every stage and was returned
C18_Witness ==
    /\ Done("Patient")
    /\ input = With("names", List(<<Dict([given |-> Str("John")])>>))
    /\ validated.names.l[1].d.given = List(<<Str("John")>>)
    /\ Succeeded

\* C20: for every raw input the id-generating Patient converter fails
\* exactly when the patient.py converter fails, and when both succeed their
\* outputs are equal on every key except the generated id; in particular an
\* input with a valid contact is accepted by both.
C20_ConvertersAgree ==
    Done("PatientWithId") =>
        LET other == convert_to_fhir("Patient", input, YearSeen, "id-1").result
        IN  /\ Failed <=> other.status = "raised"
            /\ (Succeeded /\ other.status = "returned") =>
                    WithoutId(result.value) = other.value

\* thread t has its result
ThreadDone(t) == threads[t].fr.pc = "done"

\* the result the call of thread t returns when it runs alone
Alone(t) == convert_to_fhir("Patient", threads[t].input, clock, "id-1").result

\* C15: of two Patient calls running in different threads, on distinct
\* records or on the same record, each returns exactly the result it
\* returns when run alone, whatever the interleaving; no call sees a
\* doubly wrapped value.
C15_ConcurrentCallsSafe ==
    \A t \in DOMAIN threads : ThreadDone(t) => threads[t].fr.result = Alone(t)

====
